---- MODULE Spec2Model ----
(***************************************************************************)
(* The authentication state machine of fastapi-template-with-auth:         *)
(* OTP issuance (POST /users), OTP login (POST /auth/token), token refresh *)
(* (GET /auth/refresh), logout (GET /auth/logout) and the route guard      *)
(* protected_route, over the users table.                                  *)
(*                                                                         *)
(* Time is counted in whole ticks (get_current_timestamp strips the        *)
(* microseconds); the three time-to-live settings are given in ticks.      *)
(* A request handler is one action: it reads the row, decides, writes and  *)
(* answers.  The last request, the row it found and its answer are kept in *)
(* req, pre and resp so that the contract of each handler can be stated.   *)
(***************************************************************************)
EXTENDS Integers, FiniteSets, Sequences, TLC

VARIABLES
    users,        \* the users table: id -> row (base_users joined with users)
    tokens,       \* every JWT the service has signed so far
    now,          \* the clock, in ticks
    debug_mode,   \* settings.DEBUG_MODE, fixed at start-up
    logout_at,    \* history: id -> time of the user's logout since the last login, or None
    used_otp,     \* history: id -> the code of the user's last successful login, NoOtp
                  \*          again once an OTP is requested for the user
    req,          \* the last request
    pre,          \* the row the last request found (NoUser when none)
    resp,         \* the answer to the last request
    calls,        \* the requests in flight, when requests overlap
    old_tokens    \* history: the access tokens signed for a user before a logout
                  \*          of that user, where the logouts are noted

vars == <<users, tokens, now, debug_mode, logout_at, used_otp, req, pre, resp,
          calls, old_tokens>>

-----------------------------------------------------------------------------
(* Bounds of the model *)

MaxTime == 2
MaxTokens == 2
MaxSessions == 2

(* Settings (app/config.py), in ticks *)

OTP_EXPIRED_TIME == 1
ACCESS_TOKEN_EXPIRES_IN == 1
REFRESH_TOKEN_EXPIRES_IN == 2

\* The addresses that write to the service, and the codes secrets.randbelow
\* can draw (two of the 9^4)
Emails == {"a@x.com", "b@x.com"}
Codes == {"1111", "2222"}
NoEmail == ""
NoOtp == ""

\* uuid4 ids, named by the order of creation
Ids == 1..Cardinality(Emails)

\* Python's None for a timestamp column, and for the hashed_otp column
None == -1
NoHash == <<>>

-----------------------------------------------------------------------------
(* controllers/utils.py *)

hash_text(text) == <<"bcrypt", text>>

verify_hashed_text(text, hashed_text) == hashed_text = hash_text(text)

-----------------------------------------------------------------------------
(* The users table *)

\* What a query that finds no row returns
NoUser ==
    [id |-> 0, email |-> NoEmail, hashed_otp |-> NoHash, otp_created_at |-> None,
     last_login_at |-> None, is_active |-> FALSE, role_id |-> 0]

\* User.create: a new row, id fresh, the nullable columns NULL, is_active true
NewUser(tbl, email) ==
    [id |-> Cardinality(DOMAIN tbl) + 1, email |-> email, hashed_otp |-> NoHash,
     otp_created_at |-> None, last_login_at |-> None, is_active |-> TRUE,
     role_id |-> 1]

\* User.read_by_email: select where email = :email (no is_active filter)
read_by_email(tbl, email) ==
    IF \E i \in DOMAIN tbl : tbl[i].email = email
    THEN tbl[CHOOSE i \in DOMAIN tbl : tbl[i].email = email]
    ELSE NoUser

\* User.read: select where id = :id (no is_active filter)
read(tbl, _id) == IF _id \in DOMAIN tbl THEN tbl[_id] ELSE NoUser

\* User.read_for_auth: select (id, last_login_at, otp_created_at, is_active) where id = :id
read_for_auth(tbl, _id) == IF _id \in DOMAIN tbl THEN tbl[_id] ELSE NoUser

\* CreateUser.execute: the row of the email, created when there is none
CreateUser_execute(tbl, email) ==
    IF read_by_email(tbl, email) = NoUser
    THEN LET u == NewUser(tbl, email) IN (u.id :> u) @@ tbl
    ELSE tbl

\* User.update_for_token under UpdateUserForToken.execute: the three columns
\* are assigned together and committed
update_for_token(tbl, _id, otp, otp_created_at, last_login_at) ==
    [tbl EXCEPT ![_id].hashed_otp = otp,
                ![_id].otp_created_at = otp_created_at,
                ![_id].last_login_at = last_login_at]

-----------------------------------------------------------------------------
(* Requests and answers *)

NoToken == [type |-> "none", sub |-> 0, iat |-> 0, exp |-> 0, jti |-> 0]
MalformedToken ==
    [type |-> "malformed", sub |-> 0, iat |-> 0, exp |-> 0, jti |-> 0]

NoReq ==
    [op |-> "none", email |-> NoEmail, otp |-> NoOtp, token |-> NoToken,
     repeat |-> FALSE, allowed_roles |-> {}]

NoResp ==
    [status |-> 0, detail |-> "", access_token |-> NoToken,
     refresh_token |-> NoToken, otp |-> NoOtp, retry_after |-> 0, user_id |-> 0,
     mail |-> FALSE, role_read |-> FALSE, cause |-> ""]

Answer(status, detail) == [NoResp EXCEPT !.status = status, !.detail = detail]

-----------------------------------------------------------------------------
(* POST /users: register_or_login_user *)

\* "User is already logged in" and "Access token is not expired"
AlreadyLoggedIn(user, t) ==
    /\ user.last_login_at # None
    /\ user.last_login_at + ACCESS_TOKEN_EXPIRES_IN >= t

\* "Current OTP is not expired yet" holding for one more tick
OtpNotExpiredYetOneMore(user, t) ==
    ~(user.otp_created_at + OTP_EXPIRED_TIME + 1 < t)

\* "Current OTP is not expired yet": not time_diff < get_current_timestamp()
OtpNotExpiredYet(user, t) == ~(user.otp_created_at + OTP_EXPIRED_TIME < t)

\* secs_to_retry = time_diff - get_current_timestamp()
secs_to_retry(user, t) == (user.otp_created_at + OTP_EXPIRED_TIME) - t

\* The branch taken without the "User is already logged in" test
RegisterBranchNoLoginTest(user, t) ==
    IF debug_mode /\ user.otp_created_at # None /\ OtpNotExpiredYet(user, t)
         THEN "retry"
    ELSE "issue"

\* The branch the handler takes for the row it read
RegisterBranch(user, t) ==
    IF debug_mode /\ AlreadyLoggedIn(user, t) THEN "already"
    ELSE IF debug_mode /\ user.otp_created_at # None /\ OtpNotExpiredYet(user, t)
         THEN "retry"
    ELSE "issue"

\* The 201 carrying the OTP whatever DEBUG_MODE is, with no mail asked for
OtpSentResponseAlwaysOtp(otp) ==
    [Answer(201, "OTP sent to email") EXCEPT !.otp = otp]

\* The 201 of the handler: the OTP is mailed unless DEBUG_MODE is set
\* ("if not DEBUG_MODE: await sent_otp_in_email"), and it is put in the
\* response when it is set ("if DEBUG_MODE: response['otp'] = otp")
OtpSentResponse(otp) ==
    [Answer(201, "OTP sent to email")
        EXCEPT !.otp = IF debug_mode THEN otp ELSE NoOtp,
               !.mail = ~debug_mode]

\* sent_otp_in_email (services/mail.py): nothing when the message is handed to
\* the background tasks, CouldNotSentEmailException when building it fails
MailOutcomes == {"queued", "CouldNotSentEmailException"}

\* The handler, given what sent_otp_in_email does when it is called.  The
\* mail is sent (outside DEBUG_MODE) before the row is updated.
register_or_login_user_sending(email, otp, mail) ==
    LET tbl == CreateUser_execute(users, email)
        user == read_by_email(tbl, email)
        branch == RegisterBranch(user, now)
    IN  /\ req' = [NoReq EXCEPT !.op = "register", !.email = email]
        /\ pre' = read_by_email(users, email)
        /\ used_otp' = [used_otp EXCEPT ![user.id] = NoOtp]
        /\ \/ /\ branch = "already"
              /\ users' = tbl
              /\ resp' = Answer(208, "You are logged in.")
           \/ /\ branch = "retry"
              /\ users' = tbl
              /\ resp' = [Answer(400, "Try again in N seconds")
                             EXCEPT !.retry_after = secs_to_retry(user, now)]
           \/ /\ branch = "issue"
              /\ ~debug_mode
              /\ mail = "CouldNotSentEmailException"
              /\ users' = tbl
              /\ resp' = Answer(503, "Could not sent email.")
           \/ /\ branch = "issue"
              /\ debug_mode \/ mail = "queued"
              /\ users' = update_for_token(tbl, user.id, hash_text(otp), now, None)
              /\ resp' = OtpSentResponse(otp)
        /\ UNCHANGED <<tokens, now, debug_mode, calls, old_tokens, logout_at>>

\* The handler while the mail capability works
register_or_login_user(email, otp) ==
    register_or_login_user_sending(email, otp, "queued")

-----------------------------------------------------------------------------
(* services/oauth2.py: the JWT capability (fastapi_another_jwt_auth) *)

\* The claims of a signed token.  jti is a uuid4: it is named by the order of
\* signing among the tokens with the same other claims, and it is 0 where the
\* tokens signed for one user in one tick are not told apart.
create_access_token_jti(subject, t, jti) ==
    [type |-> "access", sub |-> subject, iat |-> t,
     exp |-> t + ACCESS_TOKEN_EXPIRES_IN, jti |-> jti]

create_refresh_token_jti(subject, t, jti) ==
    [type |-> "refresh", sub |-> subject, iat |-> t,
     exp |-> t + REFRESH_TOKEN_EXPIRES_IN, jti |-> jti]

create_access_token(subject, t) == create_access_token_jti(subject, t, 0)

create_refresh_token(subject, t) == create_refresh_token_jti(subject, t, 0)

\* The next jti: how many access tokens with these claims are signed already
FreshJti(subject, t) ==
    Cardinality({k \in tokens : k.type = "access" /\ k.sub = subject /\ k.iat = t})

\* What a request can carry: nothing, something that does not decode, or a
\* token the service has signed
Presented == tokens \cup {NoToken, MalformedToken}

\* The library's verification of the presented token: the exception it
\* raises, or "ok".  The token is decoded (signature, then expiry) before its
\* type is compared.
VerifyToken(token, type_token, t) ==
    IF token.type = "none" THEN "MissingTokenError"
    ELSE IF token.type = "malformed" THEN "JWTDecodeError"
    ELSE IF token.exp <= t THEN "Signature has expired"
    ELSE IF token.type # type_token
         THEN IF type_token = "access" THEN "AccessTokenRequired"
                                       ELSE "RefreshTokenRequired"
    ELSE "ok"

jwt_required(token, t) == VerifyToken(token, "access", t)

\* jwt_refresh_token_required taking a token of either type
jwt_refresh_any_type(token, t) == VerifyToken(token, token.type, t)

jwt_refresh_token_required(token, t) == VerifyToken(token, "refresh", t)

get_jwt_subject(token) == token.sub

\* protected_route without its "has logged out" test
protected_route_no_login_check(tbl, token, t) ==
    LET err == VerifyToken(token, "access", t)
        user == read_for_auth(tbl, token.sub)
    IN  IF err = "MissingTokenError"
            THEN Answer(401, "You are not logged in. Token is Missing")
        ELSE IF err = "Signature has expired"
            THEN Answer(401, "Token has expired, login again")
        ELSE IF err # "ok"
            THEN Answer(401, "Token is invalid")
        ELSE IF user = NoUser
            THEN Answer(401, "User not found")
        ELSE IF ~user.is_active
            THEN Answer(401, "User no longer exist")
        ELSE [Answer(200, "") EXCEPT !.user_id = user.id]

\* protected_route without its is_active test
protected_route_no_active_check(tbl, token, t) ==
    LET err == VerifyToken(token, "access", t)
        user == read_for_auth(tbl, token.sub)
    IN  IF err = "MissingTokenError"
            THEN Answer(401, "You are not logged in. Token is Missing")
        ELSE IF err = "Signature has expired"
            THEN Answer(401, "Token has expired, login again")
        ELSE IF err # "ok"
            THEN Answer(401, "Token is invalid")
        ELSE IF user = NoUser
            THEN Answer(401, "User not found")
        ELSE IF user.last_login_at = None
            THEN Answer(401, "Log in first to access this route")
        ELSE [Answer(200, "") EXCEPT !.user_id = user.id]

\* protected_route answering an expired token as it answers any other
\* exception of jwt_required
protected_route_expired_as_invalid(tbl, token, t) ==
    LET err == VerifyToken(token, "access", t)
        user == read_for_auth(tbl, token.sub)
    IN  IF err = "MissingTokenError"
            THEN Answer(401, "You are not logged in. Token is Missing")
        ELSE IF err # "ok"
            THEN Answer(401, "Token is invalid")
        ELSE IF user = NoUser
            THEN Answer(401, "User not found")
        ELSE IF ~user.is_active
            THEN Answer(401, "User no longer exist")
        ELSE IF user.last_login_at = None
            THEN Answer(401, "Log in first to access this route")
        ELSE [Answer(200, "") EXCEPT !.user_id = user.id]

\* protected_route: the user id, or the 401 it raises
protected_route(tbl, token, t) ==
    LET err == jwt_required(token, t)
        user == read_for_auth(tbl, get_jwt_subject(token))
    IN  IF err = "MissingTokenError"
            THEN Answer(401, "You are not logged in. Token is Missing")
        ELSE IF err = "Signature has expired"
            THEN Answer(401, "Token has expired, login again")
        ELSE IF err # "ok"
            THEN Answer(401, "Token is invalid")
        ELSE IF user = NoUser
            THEN Answer(401, "User not found")
        ELSE IF ~user.is_active
            THEN Answer(401, "User no longer exist")
        ELSE IF user.last_login_at = None
            THEN Answer(401, "Log in first to access this route")
        ELSE [Answer(200, "") EXCEPT !.user_id = user.id]

\* Any route that depends on protected_route and does nothing else to the
\* three session columns (e.g. GET /users/{username})
Authenticate(token) ==
    /\ req' = [NoReq EXCEPT !.op = "authenticate", !.token = token]
    /\ pre' = read_for_auth(users, get_jwt_subject(token))
    /\ resp' = protected_route(users, token, now)
    /\ UNCHANGED <<users, tokens, now, debug_mode, calls, old_tokens, logout_at, used_otp>>

-----------------------------------------------------------------------------
(* controllers/dependencies.py: RoleChecker; api/v1/role/operations.py *)

\* The allow-lists a route can be declared with: RoleChecker([1]) and
\* RoleChecker([2])
AllowLists == {{1}, {2}}

\* ReadRole.execute: the id of the role joined to the user's row, None when
\* the join finds nothing
ReadRole_execute(tbl, user_id) ==
    IF user_id \in DOMAIN tbl /\ tbl[user_id].role_id # 0
    THEN tbl[user_id].role_id
    ELSE None

\* RoleChecker.__call__ letting every role through
RoleCheckerAnswerAnyRole(tbl, token, allowed_roles, t) ==
    LET auth == protected_route(tbl, token, t)
    IN  IF auth.status # 200 THEN auth
        ELSE [auth EXCEPT !.role_read = TRUE]

\* RoleChecker.__call__: protected_route is a dependency, resolved before the
\* body runs; its 401 ends the request before ReadRole.execute is called
RoleCheckerAnswer(tbl, token, allowed_roles, t) ==
    LET auth == protected_route(tbl, token, t)
        role == ReadRole_execute(tbl, auth.user_id)
    IN  IF auth.status # 200 THEN auth
        ELSE IF role \notin allowed_roles
            THEN [Answer(403, "Operation not permitted") EXCEPT !.role_read = TRUE]
        ELSE [auth EXCEPT !.role_read = TRUE]

\* Any route that depends on a RoleChecker
RoleChecker(token, allowed_roles) ==
    /\ req' = [NoReq EXCEPT !.op = "role", !.token = token,
                            !.allowed_roles = allowed_roles]
    /\ pre' = read_for_auth(users, get_jwt_subject(token))
    /\ resp' = RoleCheckerAnswer(users, token, allowed_roles, now)
    /\ UNCHANGED <<users, tokens, now, debug_mode, calls, old_tokens, logout_at, used_otp>>

-----------------------------------------------------------------------------
(* api/v1/auth/routes.py *)

\* The expiry test with <= for <
OtpExpiredInclusive(user, t) == user.otp_created_at + OTP_EXPIRED_TIME <= t

\* "Check if OTP is expired"
OtpExpired(user, t) == user.otp_created_at + OTP_EXPIRED_TIME < t

\* POST /auth/token testing the expiry first, and with <= for <
TokenBranchExpiryFirst(user, otp, t) ==
    IF user = NoUser THEN "not_found"
    ELSE IF debug_mode /\ AlreadyLoggedIn(user, t) THEN "already"
    ELSE IF user.hashed_otp = NoHash THEN "no_otp"
    ELSE IF user.otp_created_at + OTP_EXPIRED_TIME <= t THEN "expired"
    ELSE IF ~verify_hashed_text(otp, user.hashed_otp) THEN "incorrect"
    ELSE "ok"

\* The branch POST /auth/token takes for the row it read
TokenBranch(user, otp, t) ==
    IF user = NoUser THEN "not_found"
    ELSE IF debug_mode /\ AlreadyLoggedIn(user, t) THEN "already"
    ELSE IF user.hashed_otp = NoHash THEN "no_otp"
    ELSE IF ~verify_hashed_text(otp, user.hashed_otp)
         THEN IF OtpExpired(user, t) THEN "expired" ELSE "incorrect"
    ELSE "ok"

\* The update after login leaving last_login_at NULL
LoginUpdateNoLastLogin(tbl, user, t) ==
    update_for_token(tbl, user.id, NoHash, None, None)

\* The update after login leaving the hash of the OTP in place
LoginUpdateKeepsHash(tbl, user, t) ==
    update_for_token(tbl, user.id, user.hashed_otp, None, t)

\* The columns POST /auth/token writes once the OTP is accepted
LoginUpdate(tbl, user, t) == update_for_token(tbl, user.id, NoHash, None, t)

\* POST /auth/token clearing the OTP when a wrong code is submitted
get_token_burning_otp(email, otp) ==
    LET user == read_by_email(users, email)
        branch == TokenBranch(user, otp, now)
        access == create_access_token(user.id, now)
        refresh == create_refresh_token(user.id, now)
    IN  /\ req' = [NoReq EXCEPT !.op = "token", !.email = email, !.otp = otp,
                                 !.repeat = user # NoUser /\ used_otp[user.id] = otp]
        /\ pre' = user
        /\ \/ /\ branch = "not_found"
              /\ resp' = Answer(404, "User not found")
              /\ UNCHANGED <<users, tokens, logout_at, used_otp>>
           \/ /\ branch = "already"
              /\ resp' = Answer(208, "You are logged in.")
              /\ UNCHANGED <<users, tokens, logout_at, used_otp>>
           \/ /\ branch = "no_otp"
              /\ resp' = Answer(400, "User has not requested OTP yet")
              /\ UNCHANGED <<users, tokens, logout_at, used_otp>>
           \/ /\ branch = "expired"
              /\ resp' = Answer(400, "OTP expired")
              /\ UNCHANGED <<users, tokens, logout_at, used_otp>>
           \/ /\ branch = "incorrect"
              /\ users' = update_for_token(users, user.id, NoHash, None,
                                           user.last_login_at)
              /\ resp' = Answer(400, "Incorrect OTP")
              /\ UNCHANGED <<tokens, logout_at, used_otp>>
           \/ /\ branch = "ok"
              /\ Cardinality(tokens \cup {access, refresh}) <= MaxTokens
              /\ users' = LoginUpdate(users, user, now)
              /\ tokens' = tokens \cup {access, refresh}
              /\ logout_at' = [logout_at EXCEPT ![user.id] = None]
              /\ used_otp' = [used_otp EXCEPT ![user.id] = otp]
              /\ resp' = [Answer(201, "") EXCEPT !.access_token = access,
                                                 !.refresh_token = refresh]
        /\ UNCHANGED <<now, debug_mode, calls, old_tokens>>

\* What can go wrong in get_token after the code was accepted: the update of
\* the row raises, or the creation of the tokens (or of the response) raises
LoginFailures == {"none", "update", "create_token"}

\* POST /auth/token: get_token, signing tokens with the given jti, with the
\* given failure after the code was accepted
get_token_run(email, otp, jti, failure) ==
    LET user == read_by_email(users, email)
        branch == TokenBranch(user, otp, now)
        access == create_access_token_jti(user.id, now, jti)
        refresh == create_refresh_token_jti(user.id, now, jti)
    IN  /\ req' = [NoReq EXCEPT !.op = "token", !.email = email, !.otp = otp,
                                 !.repeat = user # NoUser /\ used_otp[user.id] = otp]
        /\ pre' = user
        /\ \/ /\ branch = "not_found"
              /\ resp' = Answer(404, "User not found")
              /\ UNCHANGED <<users, tokens, logout_at, used_otp>>
           \/ /\ branch = "already"
              /\ resp' = Answer(208, "You are logged in.")
              /\ UNCHANGED <<users, tokens, logout_at, used_otp>>
           \/ /\ branch = "no_otp"
              /\ resp' = Answer(400, "User has not requested OTP yet")
              /\ UNCHANGED <<users, tokens, logout_at, used_otp>>
           \/ /\ branch = "expired"
              /\ resp' = Answer(400, "OTP expired")
              /\ UNCHANGED <<users, tokens, logout_at, used_otp>>
           \/ /\ branch = "incorrect"
              /\ resp' = Answer(400, "Incorrect OTP")
              /\ UNCHANGED <<users, tokens, logout_at, used_otp>>
           \/ /\ branch = "ok"
              /\ failure = "update"
              /\ resp' = Answer(500, "Could not login. Try again")
              /\ UNCHANGED <<users, tokens, logout_at, used_otp>>
           \/ /\ branch = "ok"
              /\ failure = "create_token"
              /\ users' = LoginUpdate(users, user, now)
              /\ logout_at' = [logout_at EXCEPT ![user.id] = None]
              /\ used_otp' = [used_otp EXCEPT ![user.id] = otp]
              /\ resp' = Answer(500, "Internal Server Error")
              /\ UNCHANGED tokens
           \/ /\ branch = "ok"
              /\ failure = "none"
              /\ Cardinality(tokens \cup {access, refresh}) <= MaxTokens * (jti + 1)
              /\ users' = LoginUpdate(users, user, now)
              /\ tokens' = tokens \cup {access, refresh}
              /\ logout_at' = [logout_at EXCEPT ![user.id] = None]
              /\ used_otp' = [used_otp EXCEPT ![user.id] = otp]
              /\ resp' = [Answer(201, "") EXCEPT !.access_token = access,
                                                 !.refresh_token = refresh]
        /\ UNCHANGED <<now, debug_mode, calls, old_tokens>>

\* POST /auth/token with nothing failing
get_token(email, otp) == get_token_run(email, otp, 0, "none")

\* POST /auth/token signing tokens that are told apart from every token
\* signed before
get_token_fresh(email, otp) ==
    LET jti == FreshJti(read_by_email(users, email).id, now)
    IN  /\ jti < MaxSessions
        /\ get_token_run(email, otp, jti, "none")

\* The answer of GET /auth/refresh for the presented token
RefreshAnswer(tbl, token, t) ==
    LET err == jwt_refresh_token_required(token, t)
        user == read(tbl, get_jwt_subject(token))
    IN  IF err = "Signature has expired"
            THEN Answer(401, "Refresh token has expired, login again")
        ELSE IF err = "MissingTokenError"
            THEN Answer(400, "Provide refresh token")
        ELSE IF err = "JWTDecodeError"
            THEN Answer(401, "Invalid refresh token")
        ELSE IF err # "ok"
            THEN Answer(500, "Internal Server Error")
        ELSE IF user = NoUser
            THEN Answer(500, "404: User not found")
        ELSE [Answer(200, "") EXCEPT
                 !.access_token = create_access_token(user.id, t)]

\* GET /auth/refresh recording the refresh as a login
refresh_access_token_touching_login(token) ==
    LET answer == RefreshAnswer(users, token, now)
        user == read(users, get_jwt_subject(token))
    IN  /\ req' = [NoReq EXCEPT !.op = "refresh", !.token = token]
        /\ pre' = user
        /\ Cardinality(tokens \cup ({answer.access_token} \ {NoToken})) <= MaxTokens
        /\ tokens' = tokens \cup ({answer.access_token} \ {NoToken})
        /\ users' = IF answer.status = 200
                     THEN [users EXCEPT ![user.id].last_login_at = now]
                     ELSE users
        /\ resp' = answer
        /\ UNCHANGED <<now, debug_mode, calls, old_tokens, logout_at, used_otp>>

\* GET /auth/refresh: refresh_access_token
refresh_access_token(token) ==
    LET answer == RefreshAnswer(users, token, now)
    IN  /\ req' = [NoReq EXCEPT !.op = "refresh", !.token = token]
        /\ pre' = read(users, get_jwt_subject(token))
        /\ Cardinality(tokens \cup ({answer.access_token} \ {NoToken})) <= MaxTokens
        /\ tokens' = tokens \cup ({answer.access_token} \ {NoToken})
        /\ resp' = answer
        /\ UNCHANGED <<users, now, debug_mode, calls, old_tokens, logout_at, used_otp>>

\* The update of logout leaving last_login_at as it is
LogoutUpdateKeepsLogin(tbl, user_id) ==
    update_for_token(tbl, user_id, NoHash, None, tbl[user_id].last_login_at)

\* The columns GET /auth/logout writes
LogoutUpdate(tbl, user_id) == update_for_token(tbl, user_id, NoHash, None, None)

\* GET /auth/logout: logout_user.  Where the logouts are noted, the access
\* tokens signed for the user so far are recorded in old_tokens.
logout_user_noting(token, noted) ==
    LET auth == protected_route(users, token, now)
        theirs == {k \in tokens : k.type = "access" /\ k.sub = auth.user_id}
    IN  /\ req' = [NoReq EXCEPT !.op = "logout", !.token = token]
        /\ pre' = read_for_auth(users, get_jwt_subject(token))
        /\ \/ /\ auth.status # 200
              /\ resp' = auth
              /\ UNCHANGED <<users, logout_at, old_tokens>>
           \/ /\ auth.status = 200
              /\ users' = LogoutUpdate(users, auth.user_id)
              /\ logout_at' = [logout_at EXCEPT ![auth.user_id] = now]
              /\ old_tokens' = IF noted THEN old_tokens \cup theirs ELSE old_tokens
              /\ resp' = [Answer(200, "Successfully logged out")
                             EXCEPT !.user_id = auth.user_id]
        /\ UNCHANGED <<tokens, now, debug_mode, calls, used_otp>>

logout_user(token) == logout_user_noting(token, FALSE)

-----------------------------------------------------------------------------
(* Outside the handlers: an administrator deactivates an account *)

Deactivate(_id) ==
    /\ _id \in DOMAIN users
    /\ users[_id].is_active
    /\ users' = [users EXCEPT ![_id].is_active = FALSE]
    /\ req' = [NoReq EXCEPT !.op = "deactivate"]
    /\ pre' = NoUser
    /\ resp' = NoResp
    /\ UNCHANGED <<tokens, now, debug_mode, calls, old_tokens, logout_at, used_otp>>

-----------------------------------------------------------------------------
(* The clock *)

Tick ==
    /\ now < MaxTime
    /\ now' = now + 1
    /\ req' = [NoReq EXCEPT !.op = "tick"]
    /\ pre' = NoUser
    /\ resp' = NoResp
    /\ UNCHANGED <<users, tokens, debug_mode, calls, old_tokens, logout_at, used_otp>>

-----------------------------------------------------------------------------
(* Requests that overlap.  A handler awaits the store more than once: it     *)
(* reads the row (CreateUser.execute, ReadUserForToken.execute,              *)
(* protected_route), and later UpdateUserForToken.execute commits its three  *)
(* columns.  No row is locked and no version is compared in between.  Each   *)
(* request has a session of its own: User.read in UpdateUserForToken.execute *)
(* returns the object that session holds already, with the values it was     *)
(* loaded with, and the commit writes the columns whose assigned value       *)
(* differs from the loaded one.                                              *)

\* The requests that can be in flight together
Procs == {1, 2}

NoCall ==
    [op |-> "none", pc |-> "idle", email |-> NoEmail, otp |-> NoOtp,
     token |-> NoToken, loaded |-> NoUser, resp |-> NoResp, base |-> <<>>]

\* No request is in flight
Idle == <<>>

\* The request process p is handling, NoCall when it handles none
CallOf(p) == IF p \in DOMAIN calls THEN calls[p] ELSE NoCall

\* The table as it was when the first of the requests in flight began
BaseOf(p) ==
    IF \E q \in Procs : q # p /\ CallOf(q).pc # "idle"
    THEN CallOf(CHOOSE q \in Procs : q # p /\ CallOf(q).pc # "idle").base
    ELSE users

Done(call, answer) == [call EXCEPT !.pc = "done", !.resp = answer]

\* The unique constraint on the email column not enforced
unique_email_unchecked(tbl, email) == TRUE

\* base_users.email is unique: an insert of a second row for the email fails
unique_email(tbl, email) == ~\E i \in DOMAIN tbl : tbl[i].email = email

\* A salted hash and a timestamp taken with its microseconds never equal the
\* ones that were loaded: for the commit, the loaded OTP columns count as other
OtpColumnsStale(loaded) ==
    [loaded EXCEPT !.hashed_otp = NoHash, !.otp_created_at = None]

\* The UPDATE without the otp_created_at column
commit_for_token_keeping_created_at(tbl, loaded, otp, otp_created_at, last_login_at) ==
    [tbl EXCEPT
        ![loaded.id].hashed_otp =
            IF otp # loaded.hashed_otp THEN otp ELSE @,
        ![loaded.id].last_login_at =
            IF last_login_at # loaded.last_login_at THEN last_login_at ELSE @]

\* The UPDATE with no WHERE clause: the three columns are set in every row
commit_for_token_every_row(tbl, loaded, otp, otp_created_at, last_login_at) ==
    [i \in DOMAIN tbl |->
        [tbl[i] EXCEPT !.hashed_otp = otp,
                       !.otp_created_at = otp_created_at,
                       !.last_login_at = last_login_at]]

\* User.update_for_token on the object the session holds, then
\* session.commit(): the UPDATE sets the columns whose value was changed
commit_for_token(tbl, loaded, otp, otp_created_at, last_login_at) ==
    [tbl EXCEPT
       ![loaded.id].hashed_otp = IF otp # loaded.hashed_otp THEN otp ELSE @,
       ![loaded.id].otp_created_at =
           IF otp_created_at # loaded.otp_created_at THEN otp_created_at ELSE @,
       ![loaded.id].last_login_at =
           IF last_login_at # loaded.last_login_at THEN last_login_at ELSE @]

\* POST /users up to its first await on the row: CreateUser.execute reads the
\* row of the email; the handler decides on what was read
begin_register(p, email, otp) ==
    LET user == read_by_email(users, email)
        branch == RegisterBranch(user, now)
        call == [NoCall EXCEPT !.op = "register", !.email = email, !.otp = otp,
                               !.loaded = user, !.base = BaseOf(p)]
    IN  /\ CallOf(p).pc = "idle"
        /\ calls' = (p :>
              IF user = NoUser THEN [call EXCEPT !.pc = "create"]
              ELSE IF branch = "already"
                  THEN Done(call, Answer(208, "You are logged in."))
              ELSE IF branch = "retry"
                  THEN Done(call, [Answer(400, "Try again in N seconds")
                             EXCEPT !.retry_after = secs_to_retry(user, now)])
              ELSE [call EXCEPT !.pc = "write"]) @@ calls
        /\ UNCHANGED <<users, tokens, now, debug_mode, old_tokens, logout_at, used_otp,
                       req, pre, resp>>

\* The message of the database driver's error for the refused insert:
\* e.orig.args[1]
DriverMessage == "Duplicate entry for key users.email"

\* CouldNotPerformDBOperationException as User.create raises it and FastAPI
\* answers it: the detail is {"message": ..., "cause": extra}
UserCreationFailed ==
    [Answer(500, "Could not perform DB operation")
        EXCEPT !.cause = "(User Creation Failed - Integrity Error) -> " \o DriverMessage]

\* User.create: the insert, which the unique email can refuse
create_user(p) ==
    LET call == CallOf(p)
        new == NewUser(users, call.email)
    IN  /\ call.pc = "create"
        /\ \/ /\ unique_email(users, call.email)
              /\ users' = (new.id :> new) @@ users
              /\ calls' = (p :>
                      [call EXCEPT !.pc = "write", !.loaded = new]) @@ calls
           \/ /\ ~unique_email(users, call.email)
              /\ users' = users
              /\ calls' = (p :>
                      Done(call, UserCreationFailed)) @@ calls
        /\ UNCHANGED <<tokens, now, debug_mode, old_tokens, logout_at, used_otp,
                       req, pre, resp>>

\* POST /users from UpdateUserForToken.execute on
write_register(p) ==
    LET call == CallOf(p)
    IN  /\ call.op = "register"
        /\ call.pc = "write"
        /\ users' = commit_for_token(users, OtpColumnsStale(call.loaded),
                                     hash_text(call.otp), now, None)
        /\ calls' = (p :> Done(call, OtpSentResponse(call.otp))) @@ calls
        /\ UNCHANGED <<tokens, now, debug_mode, old_tokens, logout_at, used_otp,
                       req, pre, resp>>

\* The answer of POST /auth/token that ends the request before any write
TokenRefusal(branch) ==
    IF branch = "not_found" THEN Answer(404, "User not found")
    ELSE IF branch = "already" THEN Answer(208, "You are logged in.")
    ELSE IF branch = "no_otp" THEN Answer(400, "User has not requested OTP yet")
    ELSE IF branch = "expired" THEN Answer(400, "OTP expired")
    ELSE Answer(400, "Incorrect OTP")

\* POST /auth/token up to UpdateUserForToken.execute
begin_get_token(p, email, otp) ==
    LET user == read_by_email(users, email)
        branch == TokenBranch(user, otp, now)
        call == [NoCall EXCEPT !.op = "token", !.email = email, !.otp = otp,
                               !.loaded = user, !.base = BaseOf(p)]
    IN  /\ CallOf(p).pc = "idle"
        /\ calls' = (p :>
              IF branch = "ok" THEN [call EXCEPT !.pc = "write"]
              ELSE Done(call, TokenRefusal(branch))) @@ calls
        /\ UNCHANGED <<users, tokens, now, debug_mode, old_tokens, logout_at, used_otp,
                       req, pre, resp>>

\* POST /auth/token from UpdateUserForToken.execute on
write_get_token(p) ==
    LET call == CallOf(p)
        access == create_access_token(call.loaded.id, now)
        refresh == create_refresh_token(call.loaded.id, now)
    IN  /\ call.op = "token"
        /\ call.pc = "write"
        /\ users' = commit_for_token(users, call.loaded, NoHash, None, now)
        /\ tokens' = tokens \cup {access, refresh}
        /\ calls' = (p :>
              Done(call, [Answer(201, "") EXCEPT !.access_token = access,
                                                 !.refresh_token = refresh])) @@ calls
        /\ UNCHANGED <<now, debug_mode, old_tokens, logout_at, used_otp, req, pre, resp>>

\* GET /auth/logout up to the commit: protected_route, then User.read
begin_logout(p, token) ==
    LET auth == protected_route(users, token, now)
        call == [NoCall EXCEPT !.op = "logout", !.token = token,
                               !.base = BaseOf(p)]
    IN  /\ CallOf(p).pc = "idle"
        /\ calls' = (p :>
              IF auth.status # 200 THEN Done(call, auth)
              ELSE [call EXCEPT !.pc = "write",
                                !.loaded = read(users, auth.user_id)]) @@ calls
        /\ UNCHANGED <<users, tokens, now, debug_mode, old_tokens, logout_at, used_otp,
                       req, pre, resp>>

\* GET /auth/logout from the commit on
write_logout(p) ==
    LET call == CallOf(p)
    IN  /\ call.op = "logout"
        /\ call.pc = "write"
        /\ users' = commit_for_token(users, call.loaded, NoHash, None, None)
        /\ calls' = (p :>
              Done(call, [Answer(200, "Successfully logged out")
                             EXCEPT !.user_id = call.loaded.id])) @@ calls
        /\ UNCHANGED <<tokens, now, debug_mode, old_tokens, logout_at, used_otp,
                       req, pre, resp>>

\* The answers are returned: the requests in flight have all been answered
Return ==
    /\ \E p \in Procs : CallOf(p).pc = "done"
    /\ \A p \in Procs : CallOf(p).pc \in {"idle", "done"}
    /\ calls' = Idle
    /\ UNCHANGED <<users, tokens, now, debug_mode, old_tokens, logout_at, used_otp,
                   req, pre, resp>>

-----------------------------------------------------------------------------

Init ==
    /\ users = <<>>
    /\ tokens = {}
    /\ now = 0
    /\ debug_mode \in BOOLEAN
    /\ logout_at = [i \in Ids |-> None]
    /\ used_otp = [i \in Ids |-> NoOtp]
    /\ req = NoReq
    /\ pre = NoUser
    /\ resp = NoResp
    /\ calls = Idle
    /\ old_tokens = {}

Next ==
    \/ \E email \in Emails, otp \in Codes : register_or_login_user(email, otp)
    \/ \E email \in Emails, otp \in Codes : get_token(email, otp)
    \/ \E token \in Presented : refresh_access_token(token)
    \/ \E token \in Presented : logout_user(token)
    \/ \E token \in Presented : Authenticate(token)
    \/ \E _id \in Ids : Deactivate(_id)
    \/ Tick

Spec == Init /\ [][Next]_vars

\* The service with its role-gated routes: sessions are opened and closed by
\* OTP login and logout, and every guarded request goes through a RoleChecker
NextRoles ==
    \/ \E email \in Emails, otp \in Codes : register_or_login_user(email, otp)
    \/ \E email \in Emails, otp \in Codes : get_token(email, otp)
    \/ \E token \in Presented : logout_user(token)
    \/ \E token \in Presented, allowed_roles \in AllowLists :
           RoleChecker(token, allowed_roles)
    \/ \E _id \in Ids : Deactivate(_id)
    \/ Tick

SpecRoles == Init /\ [][NextRoles]_vars

\* The service with a mail capability that can fail: sessions are opened and
\* closed by OTP login and logout, and sent_otp_in_email may raise
NextMail ==
    \/ \E email \in Emails, otp \in Codes, mail \in MailOutcomes :
           register_or_login_user_sending(email, otp, mail)
    \/ \E email \in Emails, otp \in Codes : get_token(email, otp)
    \/ \E token \in Presented : logout_user(token)
    \/ Tick

SpecMail == Init /\ [][NextMail]_vars

\* The service with a store and a token library that can fail during a
\* login: after the code was accepted the update of the row, or the creation
\* of the tokens, may raise
NextFaults ==
    \/ \E email \in Emails, otp \in Codes : register_or_login_user(email, otp)
    \/ \E email \in Emails, otp \in Codes, failure \in LoginFailures :
           get_token_run(email, otp, 0, failure)
    \/ \E token \in Presented : logout_user(token)
    \/ Tick

SpecFaults == Init /\ [][NextFaults]_vars

\* The service over several sessions of a user: every login signs tokens of
\* their own, and the logouts are noted
NextSessions ==
    \/ \E email \in Emails, otp \in Codes : register_or_login_user(email, otp)
    \/ \E email \in Emails, otp \in Codes : get_token_fresh(email, otp)
    \/ \E token \in Presented : logout_user_noting(token, TRUE)
    \/ \E token \in Presented : Authenticate(token)
    \/ Tick

SpecSessions == Init /\ [][NextSessions]_vars

\* The service with up to two requests in flight at a time, all within one
\* tick of the clock
NextOverlap ==
    \/ \E p \in Procs, email \in Emails, otp \in Codes :
           begin_register(p, email, otp)
    \/ \E p \in Procs : create_user(p)
    \/ \E p \in Procs : write_register(p)
    \/ \E p \in Procs, email \in Emails, otp \in Codes :
           begin_get_token(p, email, otp)
    \/ \E p \in Procs : write_get_token(p)
    \/ \E p \in Procs, token \in Presented : begin_logout(p, token)
    \/ \E p \in Procs : write_logout(p)
    \/ Return

SpecOverlap == Init /\ [][NextOverlap]_vars

-----------------------------------------------------------------------------
(* The contract of the handlers.  In a state whose req.op names a handler,   *)
(* now is the time of the request, pre the row it read and resp its answer. *)

\* POST /auth/token found a row with an outstanding OTP
LoginWithOutstandingOtp ==
    /\ req.op = "token"
    /\ pre # NoUser
    /\ pre.hashed_otp # NoHash

CorrectCode == verify_hashed_text(req.otp, pre.hashed_otp)

OtpPastExpiry == now > pre.otp_created_at + OTP_EXPIRED_TIME

NoTokensReturned ==
    /\ resp.access_token = NoToken
    /\ resp.refresh_token = NoToken

\* The request carried an access token that has not expired
UnexpiredAccessToken ==
    /\ req.token.type = "access"
    /\ now < req.token.exp

\* C1: a login with the correct code of the outstanding OTP, made at a time
\* now > otp_created_at + OTP_EXPIRED_TIME, is rejected with 400 "OTP
\* expired", returns no tokens and does not set last_login_at.
C1_ExpiredCorrectOtpRejected ==
    (LoginWithOutstandingOtp /\ CorrectCode /\ OtpPastExpiry)
        => /\ resp.status = 400
           /\ resp.detail = "OTP expired"
           /\ NoTokensReturned
           /\ users[pre.id].last_login_at = None

\* C2: a request for an OTP made while the user's outstanding OTP has not
\* expired (now <= otp_created_at + OTP_EXPIRED_TIME) is rejected and leaves
\* hashed_otp and otp_created_at as they were, whatever DEBUG_MODE is.
C2_NoReissueBeforeExpiry ==
    (/\ req.op = "register"
     /\ pre # NoUser
     /\ pre.hashed_otp # NoHash
     /\ now <= pre.otp_created_at + OTP_EXPIRED_TIME)
        => /\ resp.status = 400
           /\ users[pre.id].hashed_otp = pre.hashed_otp
           /\ users[pre.id].otp_created_at = pre.otp_created_at

\* The request carried an unexpired access token issued to a user before that
\* user's logout, and the user has not logged in since
TokenFromBeforeLogout ==
    /\ UnexpiredAccessToken
    /\ logout_at[req.token.sub] # None
    /\ req.token.iat <= logout_at[req.token.sub]

\* C3: after a user's logout, and until the user logs in again, the guard
\* answers 401 to an access token issued to the user before the logout,
\* although the token has not expired.
C3_LogoutInvalidatesToken ==
    (req.op = "authenticate" /\ TokenFromBeforeLogout) => resp.status = 401

C3_Witness ==
    /\ req.op = "authenticate"
    /\ TokenFromBeforeLogout
    /\ pre.is_active
    /\ resp.status = 401
    /\ resp.detail = "Log in first to access this route"

\* C4: a login with the correct code of the outstanding OTP at a time
\* now <= otp_created_at + OTP_EXPIRED_TIME succeeds: it returns an access
\* token and a refresh token whose subject is the user's id.
C4_CorrectOtpBeforeExpiryLogsIn ==
    (LoginWithOutstandingOtp /\ CorrectCode /\ ~OtpPastExpiry)
        => /\ resp.status = 201
           /\ resp.access_token.type = "access"
           /\ resp.access_token.sub = pre.id
           /\ resp.refresh_token.type = "refresh"
           /\ resp.refresh_token.sub = pre.id

\* The login at the last tick of the OTP's life
C4_Witness ==
    /\ LoginWithOutstandingOtp
    /\ CorrectCode
    /\ now = pre.otp_created_at + OTP_EXPIRED_TIME
    /\ resp.status = 201
    /\ resp.access_token.sub = pre.id

\* C5: a login with a wrong code while the outstanding OTP has not expired
\* (now <= otp_created_at + OTP_EXPIRED_TIME) is answered 400 "Incorrect
\* OTP", never "OTP expired".
C5_WrongCodeBeforeExpiryIsIncorrect ==
    (LoginWithOutstandingOtp /\ ~CorrectCode /\ ~OtpPastExpiry)
        => /\ resp.status = 400
           /\ resp.detail = "Incorrect OTP"

C5_Witness ==
    /\ LoginWithOutstandingOtp
    /\ ~CorrectCode
    /\ now = pre.otp_created_at + OTP_EXPIRED_TIME
    /\ resp.detail = "Incorrect OTP"

\* C6: right after a successful login the user's hashed_otp and
\* otp_created_at are NULL and last_login_at is not.
C6_LoginClearsOtpAndSetsLastLogin ==
    (req.op = "token" /\ resp.status = 201)
        => /\ users[pre.id].hashed_otp = NoHash
           /\ users[pre.id].otp_created_at = None
           /\ users[pre.id].last_login_at # None

C6_Witness ==
    /\ req.op = "token"
    /\ resp.status = 201
    /\ pre.hashed_otp # NoHash
    /\ users[pre.id].hashed_otp = NoHash
    /\ users[pre.id].last_login_at = now

\* C7, as claimed: once a login has succeeded, a further login with the same
\* email and code, with no request for an OTP in between, returns no tokens
\* and is answered 400 "User has not requested OTP yet".
C7_RepeatedLoginIsNoOtpRequested ==
    (req.op = "token" /\ req.repeat)
        => /\ NoTokensReturned
           /\ resp.status = 400
           /\ resp.detail = "User has not requested OTP yet"

\* C7, amended: such a further login returns no tokens; it is answered 400
\* "User has not requested OTP yet", except that under DEBUG_MODE and with
\* last_login_at + ACCESS_TOKEN_EXPIRES_IN >= now it is answered 208 "You are
\* logged in."
C7_RepeatedLoginReturnsNoTokens ==
    (req.op = "token" /\ req.repeat)
        => /\ NoTokensReturned
           /\ IF debug_mode /\ AlreadyLoggedIn(pre, now)
              THEN resp.status = 208 /\ resp.detail = "You are logged in."
              ELSE /\ resp.status = 400
                   /\ resp.detail = "User has not requested OTP yet"

C7_Witness ==
    /\ req.op = "token"
    /\ req.repeat
    /\ pre.last_login_at # None
    /\ resp.status = 400
    /\ resp.detail = "User has not requested OTP yet"

\* Logout was asked for a user who is logged out, with an unexpired access
\* token of that user
LogoutWhenLoggedOut ==
    /\ req.op = "logout"
    /\ UnexpiredAccessToken
    /\ pre # NoUser
    /\ pre.last_login_at = None

\* C8, as claimed: logout for a user who is already logged out, with the
\* user's unexpired access token, returns success and leaves the row as it is.
C8_LogoutIsIdempotent ==
    LogoutWhenLoggedOut => (resp.status = 200 /\ users[pre.id] = pre)

\* C8, amended: logout for a user who is already logged out, with the user's
\* unexpired access token, is answered 401 and leaves the row as it is.
C8_LogoutWhenLoggedOutIsUnauthorized ==
    LogoutWhenLoggedOut => (resp.status = 401 /\ users[pre.id] = pre)

\* The second of two logouts with the same token
C8_Witness ==
    /\ LogoutWhenLoggedOut
    /\ pre.is_active
    /\ logout_at[pre.id] # None
    /\ req.token.iat <= logout_at[pre.id]
    /\ resp.status = 401

\* C9: a refresh that carries an access token returns no new access token.
C9_RefreshRejectsAccessToken ==
    (req.op = "refresh" /\ req.token.type = "access")
        => /\ resp.access_token = NoToken
           /\ resp.status # 200

\* The access token of a user who is logged in, not yet expired
C9_Witness ==
    /\ req.op = "refresh"
    /\ UnexpiredAccessToken
    /\ pre.is_active
    /\ pre.last_login_at # None
    /\ resp.status = 500
    /\ resp.access_token = NoToken

\* C10: the guard returns a user id only for a signed, unexpired access token
\* whose subject is an existing row with is_active true and last_login_at not
\* NULL, and the id it returns is the token's subject.
C10_GuardReturnsSubjectOfValidSession ==
    (req.op = "authenticate" /\ resp.status = 200)
        => /\ req.token \in tokens
           /\ UnexpiredAccessToken
           /\ pre # NoUser
           /\ pre.id = req.token.sub
           /\ pre.is_active
           /\ pre.last_login_at # None
           /\ resp.user_id = req.token.sub

\* The guard lets the second user in
C10_Witness ==
    /\ req.op = "authenticate"
    /\ resp.status = 200
    /\ resp.user_id = 2
    /\ req.token.sub = 2
    /\ \E i \in DOMAIN users : i # 2 /\ ~users[i].is_active

\* What protected_route requires to let a request through: an unexpired access
\* token whose subject is an active row with last_login_at not NULL
AuthenticateSucceeds ==
    /\ UnexpiredAccessToken
    /\ pre # NoUser
    /\ pre.is_active
    /\ pre.last_login_at # None

\* C11: a role-gated route answers 403 exactly when the guard lets the
\* request through and the user's role id is not in the route's allow-list;
\* whenever the guard rejects the request the answer is 401 and the user's
\* role is not read.
C11_ForbiddenIffAuthenticatedAndRoleNotAllowed ==
    req.op = "role"
        => /\ (resp.status = 403)
                <=> (AuthenticateSucceeds /\ pre.role_id \notin req.allowed_roles)
           /\ ~AuthenticateSucceeds => (resp.status = 401 /\ ~resp.role_read)
           /\ AuthenticateSucceeds => resp.role_read

\* A logged-in user of role 1 asks for a route open to role 2 only
C11_Witness ==
    /\ req.op = "role"
    /\ AuthenticateSucceeds
    /\ pre.role_id = 1
    /\ req.allowed_roles = {2}
    /\ resp.status = 403
    /\ resp.detail = "Operation not permitted"
    /\ resp.role_read

\* C12: whatever makes the guard reject an unexpired access token -- no row
\* for its subject, the row deactivated, or the user logged out -- the answer
\* (status and detail) is the same: the answer given is also the answer the
\* same token gets under each of the three causes.
C12_RejectionCausesIndistinguishable ==
    (req.op = "authenticate" /\ UnexpiredAccessToken /\ pre # NoUser
        /\ resp.status # 200)
        => LET absent == <<>>
               deactivated == [users EXCEPT ![pre.id].is_active = FALSE]
               logged_out == [users EXCEPT ![pre.id].is_active = TRUE,
                                           ![pre.id].last_login_at = None]
           IN  /\ resp = protected_route(absent, req.token, now)
               /\ resp = protected_route(deactivated, req.token, now)
               /\ resp = protected_route(logged_out, req.token, now)

\* C13: a row with is_active false is not found by login and by refresh: the
\* login is answered 404 and neither returns a token for it.
C13_DeactivatedIsNotFound ==
    /\ (req.op = "token" /\ pre # NoUser /\ ~pre.is_active)
          => (resp.status = 404 /\ NoTokensReturned)
    /\ (req.op = "refresh" /\ pre # NoUser /\ ~pre.is_active)
          => resp.access_token = NoToken

\* C14: a request for an OTP by a user with last_login_at not NULL and
\* last_login_at + ACCESS_TOKEN_EXPIRES_IN >= now stores no new OTP and leaves
\* last_login_at as it is, whatever DEBUG_MODE is.
C14_NoOtpWhileAccessWindowOpen ==
    (req.op = "register" /\ pre # NoUser /\ AlreadyLoggedIn(pre, now))
        => /\ resp.status # 201
           /\ users[pre.id].hashed_otp = pre.hashed_otp
           /\ users[pre.id].otp_created_at = pre.otp_created_at
           /\ users[pre.id].last_login_at = pre.last_login_at

\* The three session columns of the row the request read are as it read them
RowUntouched ==
    /\ users[pre.id].hashed_otp = pre.hashed_otp
    /\ users[pre.id].otp_created_at = pre.otp_created_at
    /\ users[pre.id].last_login_at = pre.last_login_at

C16_MailFailureKeepsOtpWrite ==
    (req.op = "register" /\ resp.status = 503)
        => LET user == read_by_email(users, req.email)
           IN  /\ user.hashed_otp # NoHash
               /\ user.otp_created_at = now

\* The answers of POST /auth/token to a failed OTP submission
FailedOtpDetails == {"User has not requested OTP yet", "Incorrect OTP", "OTP expired"}

\* C17: a login that fails with "User has not requested OTP yet", "Incorrect
\* OTP" or "OTP expired" changes no row of the users table, signs no token and
\* returns none, however many such logins came before it.
C17_FailedLoginChangesNothing ==
    [][(req'.op = "token" /\ resp'.detail \in FailedOtpDetails)
          => /\ users' = users
             /\ tokens' = tokens
             /\ resp'.status = 400
             /\ resp'.access_token = NoToken
             /\ resp'.refresh_token = NoToken]_vars

\* A wrong code submitted while an OTP is outstanding: the row stays as read
C17_Witness ==
    /\ req.op = "token"
    /\ resp.detail = "Incorrect OTP"
    /\ pre.hashed_otp # NoHash
    /\ users[pre.id] = pre
    /\ NoTokensReturned

\* C18: a refresh returns a new access token only for a user whose
\* last_login_at is not NULL: with the valid refresh token of a user who has
\* logged out it returns none.
C18_RefreshOnlyWhileLoggedIn ==
    (req.op = "refresh" /\ resp.access_token # NoToken)
        => pre.last_login_at # None

\* C19: a refresh, answered with a token or with an error, leaves every row
\* of the users table as it is.
C19_RefreshChangesNoRow ==
    [][req'.op = "refresh" => users' = users]_vars

\* A refresh that returned a token for a user with an OTP outstanding
C19_Witness ==
    /\ req.op = "refresh"
    /\ resp.status = 200
    /\ resp.access_token # NoToken
    /\ pre.hashed_otp # NoHash
    /\ users[pre.id] = pre

\* C20: when a request for an OTP is rejected for backoff, the seconds to
\* retry it reports are (otp_created_at + OTP_EXPIRED_TIME) - now and are
\* more than zero, also when now = otp_created_at + OTP_EXPIRED_TIME.
C20_RetryAfterIsPositive ==
    (req.op = "register" /\ resp.status = 400)
        => /\ resp.retry_after = (pre.otp_created_at + OTP_EXPIRED_TIME) - now
           /\ resp.retry_after > 0

\* C21: the answer to a request for an OTP carries the OTP in plain text if
\* and only if DEBUG_MODE is set, and the OTP is mailed if and only if
\* DEBUG_MODE is not set; an answer that issues no OTP carries none and mails
\* nothing.
C21_PlaintextOtpIffDebug ==
    req.op = "register"
        => /\ resp.status = 201
                => /\ resp.otp # NoOtp <=> debug_mode
                   /\ resp.mail <=> ~debug_mode
                   /\ debug_mode
                        => hash_text(resp.otp)
                             = read_by_email(users, req.email).hashed_otp
           /\ resp.status # 201 => (resp.otp = NoOtp /\ ~resp.mail)

\* An OTP issued outside DEBUG_MODE: mailed, and absent from the answer
C21_Witness ==
    /\ req.op = "register"
    /\ ~debug_mode
    /\ resp.status = 201
    /\ resp.mail
    /\ resp.otp = NoOtp
    /\ read_by_email(users, req.email).hashed_otp # NoHash

\* The rows of the table that carry the email
EmailCount(tbl, email) == Cardinality({i \in DOMAIN tbl : tbl[i].email = email})

C23_RefreshTokenFailuresAre401 ==
    (req.op = "refresh" /\ jwt_refresh_token_required(req.token, now) # "ok")
        => resp.status = 401

\* C24: no answer carries the text of an internal exception: the answer to a
\* failed request has a fixed message and no cause taken from the exception.
C24_NoExceptionTextInAnswers ==
    /\ resp.cause = ""
    /\ \A p \in Procs : CallOf(p).resp.cause = ""

\* The failures of the presented token the guard tells apart
TokenFailures == {"MissingTokenError", "JWTDecodeError", "Signature has expired"}

C26_OtpColumnsSetTogether ==
    \A i \in DOMAIN users :
        (users[i].otp_created_at = None) <=> (users[i].hashed_otp = NoHash)

\* A request for an OTP and a login of one user overlapped, both wrote the
\* row, and the row holds an OTP
C26_Witness ==
    \E p, q \in Procs :
        /\ CallOf(p).op = "register"
        /\ CallOf(q).op = "token"
        /\ CallOf(p).email = CallOf(q).email
        /\ CallOf(p).resp.status = 201
        /\ CallOf(q).resp.status = 201
        /\ read_by_email(users, CallOf(p).email).hashed_otp # NoHash
        /\ read_by_email(users, CallOf(p).email).otp_created_at # None

\* C27: no row has both an OTP outstanding and a login recorded: hashed_otp
\* and last_login_at are never both set.
C27_NoOtpWhileLoggedIn ==
    \A i \in DOMAIN users :
        ~(users[i].hashed_otp # NoHash /\ users[i].last_login_at # None)

\* POST /users run alone on the table: the table it leaves and its answer
register_or_login_user_alone(tbl, email, otp) ==
    LET created == CreateUser_execute(tbl, email)
        user == read_by_email(created, email)
        branch == RegisterBranch(user, now)
    IN  IF branch = "already"
            THEN [tbl |-> created, resp |-> Answer(208, "You are logged in.")]
        ELSE IF branch = "retry"
            THEN [tbl |-> created,
                  resp |-> [Answer(400, "Try again in N seconds")
                               EXCEPT !.retry_after = secs_to_retry(user, now)]]
        ELSE [tbl |-> update_for_token(created, user.id, hash_text(otp), now, None),
              resp |-> OtpSentResponse(otp)]

\* POST /auth/token run alone on the table: the table it leaves and its answer
get_token_alone(tbl, email, otp) ==
    LET user == read_by_email(tbl, email)
        branch == TokenBranch(user, otp, now)
    IN  IF branch = "ok"
            THEN [tbl |-> update_for_token(tbl, user.id, NoHash, None, now),
                  resp |-> [Answer(201, "")
                               EXCEPT !.access_token = create_access_token(user.id, now),
                                      !.refresh_token = create_refresh_token(user.id, now)]]
        ELSE [tbl |-> tbl, resp |-> TokenRefusal(branch)]

\* C28: when a request for an OTP and a login for the same email have both
\* been answered, the table and the two answers are those of the two
\* requests run one after the other, in one of the two orders, on the table
\* as it was before the first of them began.
C28_OtpRequestAndLoginSerialisable ==
    \A p, q \in Procs :
        (/\ CallOf(p).op = "register" /\ CallOf(p).pc = "done"
         /\ CallOf(q).op = "token" /\ CallOf(q).pc = "done"
         /\ CallOf(p).email = CallOf(q).email)
            => LET base == CallOf(p).base
                   email == CallOf(p).email
                   r1 == register_or_login_user_alone(base, email, CallOf(p).otp)
                   t1 == get_token_alone(r1.tbl, email, CallOf(q).otp)
                   t2 == get_token_alone(base, email, CallOf(q).otp)
                   r2 == register_or_login_user_alone(t2.tbl, email, CallOf(p).otp)
               IN  \/ /\ users = t1.tbl
                      /\ CallOf(p).resp = r1.resp
                      /\ CallOf(q).resp = t1.resp
                   \/ /\ users = r2.tbl
                      /\ CallOf(p).resp = r2.resp
                      /\ CallOf(q).resp = t2.resp

\* C29: an OTP is used once: of two logins for one email that carry the
\* correct code and overlap, at most one is answered with tokens.
C29_OtpSingleUseUnderOverlap ==
    \A p, q \in Procs :
        (/\ p # q
         /\ CallOf(p).op = "token"
         /\ CallOf(q).op = "token"
         /\ CallOf(p).email = CallOf(q).email)
            => ~(/\ CallOf(p).resp.access_token # NoToken
                 /\ CallOf(q).resp.access_token # NoToken)

\* The id of the user a request in flight is made for
UserOf(tbl, call) ==
    IF call.op = "logout" THEN get_jwt_subject(call.token)
    ELSE read_by_email(tbl, call.email).id

\* C30: a step of a request for an OTP, a login or a logout changes no row
\* other than the row of the user the request is made for, whatever requests
\* for other users are in flight.
C30_OtherUsersRowsUntouched ==
    [][\A p \in Procs :
          CallOf(p)' # CallOf(p)
              => \A i \in DOMAIN users :
                    i # UserOf(users', CallOf(p)') => users'[i] = users[i]]_vars

\* A login of one user has written its row while a request of another user,
\* who has an OTP outstanding, is between its read and its write
C30_Witness ==
    \E p, q \in Procs :
        /\ CallOf(p).op = "token"
        /\ CallOf(p).resp.status = 201
        /\ CallOf(q).pc = "write"
        /\ CallOf(q).loaded.id # CallOf(p).loaded.id
        /\ users[CallOf(q).loaded.id] = CallOf(q).loaded
        /\ CallOf(q).loaded.hashed_otp # NoHash

\* C31: once a user has logged out, the guard answers 401 to every access
\* token signed for the user before the logout, in every later state: also
\* when the user has requested a new OTP and logged in again and the old
\* token has not expired.
C31_OldTokenRejectedAfterLogout ==
    (req.op = "authenticate" /\ req.token \in old_tokens) => resp.status = 401

\* C32: when a login is answered with an error, also one raised while the
\* tokens are created, hashed_otp, otp_created_at and last_login_at of the
\* user's row are as they were before the request.
C32_FailedLoginLeavesRowAsItWas ==
    (req.op = "token" /\ pre # NoUser /\ resp.status >= 400) => RowUntouched

\* C33: a request for an OTP by a user whose outstanding OTP has expired
\* (now > otp_created_at + OTP_EXPIRED_TIME) is not rejected: it is answered
\* 201 and the row holds the hash of a new OTP, created now.
C33_BackoffEnds ==
    (/\ req.op = "register"
     /\ pre # NoUser
     /\ pre.hashed_otp # NoHash
     /\ now > pre.otp_created_at + OTP_EXPIRED_TIME)
        => /\ resp.status = 201
           /\ users[pre.id].hashed_otp # NoHash
           /\ users[pre.id].otp_created_at = now
           /\ debug_mode => users[pre.id].hashed_otp = hash_text(resp.otp)

\* C34: issuance and verification agree on the expiry of an OTP.  When a
\* request for an OTP is rejected for backoff, a login for the same email
\* with a wrong code at that time is answered "Incorrect OTP", not "OTP
\* expired"; and when a login with a wrong code is answered "OTP expired", a
\* request for an OTP for the same email at that time is not rejected for
\* backoff.
C34_IssuanceAndVerificationAgreeOnExpiry ==
    LET user == read_by_email(users, req.email)
    IN  /\ (req.op = "register" /\ resp.status = 400)
              => \A otp \in Codes :
                    ~verify_hashed_text(otp, user.hashed_otp)
                        => TokenBranch(user, otp, now) = "incorrect"
        /\ (req.op = "token" /\ resp.detail = "OTP expired")
              => RegisterBranch(user, now) # "retry"

\* A request for an OTP was rejected for backoff at the last moment of the
\* OTP's life, now = otp_created_at + OTP_EXPIRED_TIME, where a wrong code is
\* still answered "Incorrect OTP"
C34_Witness ==
    /\ req.op = "register"
    /\ resp.status = 400
    /\ now = pre.otp_created_at + OTP_EXPIRED_TIME
    /\ \E otp \in Codes :
          /\ ~verify_hashed_text(otp, pre.hashed_otp)
          /\ TokenBranch(read_by_email(users, req.email), otp, now) = "incorrect"

====
